---- MODULE Spec2Model ----
(***************************************************************************)
(* A model of common/concurrent_data_downloader.py: the configuration      *)
(* object, the cache directory, the query partitioner, the parallel fetch  *)
(* stage and the aggregation / output stage of download_data_parallel.     *)
(*                                                                         *)
(* Exits.  pc = "done" is a run that returned, pc = "raised" one that      *)
(* raised to its caller, pc = "exited" a process ended by os._exit.        *)
(*                                                                         *)
(* Verbosity.  The runs are made with VerbosityLevel.FULL_LOGGING unless    *)
(* a specification says otherwise: with a lower level outside a container  *)
(* the name Tqdm of download_data_parallel is the module tqdm, which cannot *)
(* be called, and the run raises TypeError before the pool is created.     *)
(*                                                                         *)
(* Time.  A datetime, and every time string the code formats from one, is  *)
(* an integer number of ticks since 00:00 of day 0.  An hour has           *)
(* TicksPerHour ticks, so instants strictly inside an hour exist.  gte and *)
(* lte are strings with millisecond precision in the code; here they have  *)
(* tick precision, and parsing and formatting at that precision lose       *)
(* nothing.  The strftime patterns that fix fields ("%H:00:00.000",        *)
(* "T00:00:00.000") are modelled by the truncation they perform.           *)
(*                                                                         *)
(* Calendar.  One year of months of DaysInMonth days each.  A date token   *)
(* of an index name is the sequence of its dot-separated numbers,          *)
(* <<year, month>> or <<year, month, day>>; an index name without "-" has  *)
(* the empty token.                                                        *)
(***************************************************************************)
EXTENDS Integers, Sequences, FiniteSets, TLC

VARIABLES
    pc,               \* position of the main flow of the current run
    run,              \* number of the current run of the session
    args,             \* the arguments of the current run
    configurator,     \* the QueryConfigurator of the current run
    temp_dir,         \* create_cache_dir's nested_dir
    is_old_cache,     \* create_cache_dir's second result
    dirs,             \* disk: the directories under cache_storage
    files,            \* disk: the cache files, path -> [rows, complete]
    output,           \* disk: the output file
    db,               \* the backend's rows
    memory_thread,    \* the memory monitor: "unstarted", "running", "joined"
    result_queries,   \* prepare_queries' result, queries_to_download
    queue_next,       \* the executor's queue: the next position to hand out
    wpc,              \* worker -> its position in _process_single_query
    wtask,            \* worker -> the position of its query (0: none)
    wfile,            \* worker -> its temp_filename: "path" or "none"
    wtmp,             \* worker -> the counter value it read under the lock
    results,          \* position -> what executor.map yields for it
    success_count,
    error_count,
    counter_lock,     \* the worker that holds counter_lock (0: free)
    pbar,             \* ticks of the download progress bar
    result_df,        \* the table download_data_parallel returns
    outcome,          \* history: position -> how its query ended in this run
    earlier,          \* history: the records of the session's earlier runs
    info,             \* disk: cache directory -> the index line of its INFO.md
    query_log,        \* disk: the places that hold a query log file
    faults,           \* history: the file operations that failed in this run
    summary           \* history: what summary() was called with in this run

disk == <<dirs, files, output>>
pool == <<queue_next, wpc, wtask, wfile, wtmp, results, success_count,
          error_count, counter_lock, pbar, outcome>>
vars == <<pc, run, args, configurator, temp_dir, is_old_cache, dirs, files,
          output, db, memory_thread, result_queries, queue_next, wpc, wtask,
          wfile, wtmp, results, success_count, error_count, counter_lock, pbar,
          result_df, outcome, earlier, info, query_log, faults, summary>>
side == <<info, query_log, faults, summary>>

----------------------------------------------------------------------------
(* Bounds and program constants *)

TicksPerHour == 2
DaysInMonth == 2
MarginHours == 2
MaxTimeStepArg == 13
MaxSeed == 1
MaxThreads == 2
MaxRuns == 2

HoursPerDay == 24
MonthsPerYear == 12
DefaultTimeStep == 4
ChunkSize == 10
MinTimeStep == 1
MaxTimeStep == 12

\* VerbosityLevel.DETAILED and VerbosityLevel.FULL_LOGGING
Detailed == 1
FullLogging == 4

TicksPerDay == HoursPerDay * TicksPerHour
NoTime == 0 - 1
NoDir == "no_dir"
Cwd == "cwd"
NoConfigurator == [constructed |-> FALSE]
NoSummary == [sent |-> FALSE]

Max(a, b) == IF a >= b THEN a ELSE b
Min(a, b) == IF a <= b THEN a ELSE b

----------------------------------------------------------------------------
(* Configuration *)

\* set_gte_lte: both bounds, or neither when one is missing.
SetGteLte(gte, lte) ==
    IF gte = NoTime \/ lte = NoTime
    THEN [gte |-> NoTime, lte |-> NoTime]
    ELSE [gte |-> gte, lte |-> lte]

\* The clamp with its upper comparison off by one.
EffectiveTimeStepOffByOne(time_step) ==
    IF time_step >= MaxTimeStep \/ time_step < MinTimeStep
    THEN DefaultTimeStep
    ELSE time_step

\* The clamp of time_step in QueryConfigurator.__init__.
EffectiveTimeStep(time_step) ==
    IF time_step > MaxTimeStep \/ time_step < MinTimeStep
    THEN DefaultTimeStep
    ELSE time_step

\* QueryConfigurator.__init__ for arguments of the right types.
NewConfigurator(a) ==
    [constructed |-> TRUE,
     indexes |-> a.indexes,
     fields |-> a.fields,
     name_of_type |-> a.name_of_type,
     event_type |-> a.event_type,
     extra_condition |-> a.extra_condition,
     ascending |-> a.ascending,
     isin_container |-> a.isin_container,
     temp_files |-> a.temp_files /\ ~a.isin_container,
     return_df |-> a.return_df,
     gte |-> SetGteLte(a.gte, a.lte).gte,
     lte |-> SetGteLte(a.gte, a.lte).lte,
     date_range |-> a.date_range,
     ignore_exceptions |-> a.ignore_exceptions,
     output_filename |-> a.output_filename,
     verbose |-> a.verbose,
     time_step |-> EffectiveTimeStep(a.time_step)]

----------------------------------------------------------------------------
(* Cache directory *)

DigitStr(d) ==
    CASE d = 0 -> "0" [] d = 1 -> "1" [] d = 2 -> "2" [] d = 3 -> "3"
      [] d = 4 -> "4" [] d = 5 -> "5" [] d = 6 -> "6" [] d = 7 -> "7"
      [] d = 8 -> "8" [] OTHER -> "9"

\* str(n) for an integer 0 <= n < 100.
IntToStr(n) == IF n < 10 THEN DigitStr(n) ELSE DigitStr(n \div 10) \o DigitStr(n % 10)

\* hashlib.md5(...).hexdigest(), taken to be collision free: the digest of a
\* string is a name that determines the string.
Md5(s) == "md5(" \o s \o ")"

\* generate_unique_dir_name: the parameters are concatenated with no separator.
GenerateUniqueDirName(c) ==
    Md5(c.fields \o c.name_of_type \o c.event_type \o c.extra_condition
        \o IntToStr(c.time_step))

----------------------------------------------------------------------------
(* Query partitioner *)

\* strftime("%Y-%m-%dT%H:00:00.000"): the hour the instant lies in.
StrftimeHour(t) == (t \div TicksPerHour) * TicksPerHour

\* strftime("%Y-%m-%dT00:00:00.000"): the midnight that begins the instant's day.
StrftimeMidnight(t) == (t \div TicksPerDay) * TicksPerDay

\* datetime.strptime(..., "%Y.%m.%d") as the first tick of the day.
DateTick(month, day) == ((month - 1) * DaysInMonth + (day - 1)) * TicksPerDay

\* HOUR_CONDITION_TEMPLATE["regular"], with the upper comparison "<" or, after
\* replace("<", "<="), "<=".
RegularCondition(field, start, end, closed, fmt) ==
    [kind |-> "regular", field |-> field, start |-> start, end |-> end,
     closed |-> closed, fmt |-> fmt,
     has_range |-> FALSE, gte |-> NoTime, lte |-> NoTime]

\* HOUR_CONDITION_TEMPLATE["extra"], followed by the regular template over
\* gte and lte when a range is set.
ExtraCondition(field, start, end, has_range, gte, lte, fmt) ==
    [kind |-> "extra", field |-> field, start |-> start, end |-> end,
     closed |-> FALSE, fmt |-> fmt,
     has_range |-> has_range, gte |-> gte, lte |-> lte]

\* The empty hour condition of get_query(ind, "").
NoCondition ==
    [kind |-> "none", field |-> "", start |-> NoTime, end |-> NoTime,
     closed |-> FALSE, fmt |-> "iso",
     has_range |-> FALSE, gte |-> NoTime, lte |-> NoTime]

\* The literal time format of a condition: change_time_format is applied when
\* name_of_type is "Type".
TimeFormat(c) == IF c.name_of_type = "Type" THEN "sql" ELSE "iso"

\* QueryConfigurator.get_query: the text is the template with these values.
GetQuery(c, ind, hour_condition) ==
    [fields |-> c.fields, index |-> ind, name_of_type |-> c.name_of_type,
     type |-> c.event_type, extra_condition |-> c.extra_condition,
     hour_condition |-> hour_condition, type_clause |-> TRUE]

\* get_time_strings without the clamp of the last window to midnight.
GetTimeStringsNoClamp(hour, c, end_time, start_time) ==
    [start |-> StrftimeHour(start_time), end |-> StrftimeHour(end_time)]

\* get_time_strings
GetTimeStrings(hour, c, end_time, start_time) ==
    [start |-> StrftimeHour(start_time),
     end |-> IF hour + c.time_step > HoursPerDay
             THEN StrftimeMidnight(end_time)
             ELSE StrftimeHour(end_time)]

IntersectEmptyInclusive(max_start, min_end) == max_start <= min_end

\* intersect_time_ranges: the intersection (has = FALSE for None) and the flag.
IntersectTimeRanges(start1, end1, start2, end2) ==
    LET max_start == Max(start1, start2)
        flag == ~(end1 < end2)
        min_end == IF end1 < end2 THEN end1 ELSE end2
    IN  [has |-> IntersectEmptyInclusive(max_start, min_end),
         start |-> max_start, end |-> min_end, flag |-> flag]

HasRange(c) == c.gte # NoTime /\ c.lte # NoTime

\* A cache file path: nested_dir joined with the file name.
RegularFile(dir, ind, start, end) ==
    [dir |-> dir, ind |-> ind, kind |-> "regular", start |-> start, end |-> end]

ExtraFile(dir, ind) ==
    [dir |-> dir, ind |-> ind, kind |-> "extra", start |-> NoTime, end |-> NoTime]

FullFile(dir, ind) ==
    [dir |-> dir, ind |-> ind, kind |-> "full", start |-> NoTime, end |-> NoTime]

\* append_query
AppendQuery(c, ind, dir, rq, start_time_str, end_time_str, start_date, end_date, field, is_extra_query) ==
    IF is_extra_query
    THEN Append(rq,
           [query |-> GetQuery(c, ind,
                        ExtraCondition(field, StrftimeMidnight(start_date),
                                       StrftimeMidnight(end_date),
                                       HasRange(c), c.gte, c.lte, TimeFormat(c))),
            file |-> ExtraFile(dir, ind)])
    ELSE LET r == IntersectTimeRanges(start_time_str, end_time_str, c.gte, c.lte)
         IN  IF HasRange(c) /\ ~r.has
             THEN rq
             ELSE Append(rq,
                    [query |-> GetQuery(c, ind,
                                 IF HasRange(c)
                                 THEN RegularCondition(field, r.start, r.end,
                                                       r.flag, TimeFormat(c))
                                 ELSE RegularCondition(field, start_time_str,
                                                       end_time_str, FALSE,
                                                       TimeFormat(c))),
                     file |-> RegularFile(dir, ind, start_time_str, end_time_str)])

\* A loop body that emits the window of no length as well.
SkipsWindowNever(start_time_str, end_time_str) == FALSE

\* create_queries_for_date_range: a window whose two time strings are equal
\* is skipped.
SkipsWindow(start_time_str, end_time_str) == end_time_str = start_time_str

\* The for loop over range(0, 25, time_step) of create_queries_for_date_range,
\* from `hour` on, for one day.
RECURSIVE HourLoop(_, _, _, _, _, _, _, _, _)
HourLoop(c, ind, dir, rq, current_day, hour, start_date, end_date, field) ==
    IF hour > HoursPerDay
    THEN rq
    ELSE LET start_time == current_day + hour * TicksPerHour
             end_time == start_time + c.time_step * TicksPerHour
             s == GetTimeStrings(hour, c, end_time, start_time)
         IN  IF SkipsWindow(s.start, s.end)
             THEN HourLoop(c, ind, dir, rq, current_day, hour + c.time_step,
                           start_date, end_date, field)
             ELSE LET rq1 == AppendQuery(c, ind, dir, rq, s.start, s.end,
                                         start_date, end_date, field, FALSE)
                  IN  IF hour + c.time_step > HoursPerDay
                      THEN rq1
                      ELSE HourLoop(c, ind, dir, rq1, current_day,
                                    hour + c.time_step, start_date, end_date, field)

\* An extra SubQuery after every day, whatever the granularity of the index.
ExtraAfterEveryDay(is_compressed_index) == TRUE

\* create_queries_for_date_range: the test that guards the extra SubQuery
\* of a day, `not is_compressed_index`.
ExtraAfterDay(is_compressed_index) == ~is_compressed_index

\* create_queries_for_date_range: the while loop over the days, from current_day on.
RECURSIVE CreateQueriesForDateRange(_, _, _, _, _, _, _, _, _)
CreateQueriesForDateRange(c, ind, dir, rq, current_day, start_date, end_date, is_compressed_index, field) ==
    IF ~(current_day < end_date)
    THEN rq
    ELSE LET rq1 == HourLoop(c, ind, dir, rq, current_day, 0, start_date,
                             end_date, field)
             rq2 == IF ExtraAfterDay(is_compressed_index)
                    THEN AppendQuery(c, ind, dir, rq1, NoTime, NoTime, start_date,
                                     end_date, field, TRUE)
                    ELSE rq1
             next_day == current_day + TicksPerDay
             rq3 == IF next_day = end_date /\ is_compressed_index
                    THEN AppendQuery(c, ind, dir, rq2, NoTime, NoTime, start_date,
                                     end_date, field, TRUE)
                    ELSE rq2
         IN  CreateQueriesForDateRange(c, ind, dir, rq3, next_day, start_date,
                                       end_date, is_compressed_index, field)

\* parse_date_from_index for a token of two or three numbers.
ParseDateFromIndex(date_part) ==
    IF Len(date_part) = 2
    THEN [start_date |-> DateTick(date_part[2], 1),
          end_date |-> DateTick(date_part[2] + 1, 1),
          is_compressed_index |-> TRUE]
    ELSE [start_date |-> DateTick(date_part[2], date_part[3]),
          end_date |-> DateTick(date_part[2], date_part[3]) + TicksPerDay,
          is_compressed_index |-> FALSE]

\* The tokens datetime.strptime accepts: a month of the year and, in a
\* three-part token, a day of the month.  On any other token with a "-"
\* before it parse_date_from_index raises.
ValidDate(date_part) ==
    /\ Len(date_part) \in {2, 3}
    /\ date_part[2] \in 1..MonthsPerYear
    /\ Len(date_part) = 3 => date_part[3] \in 1..DaysInMonth

\* datetime.min
DatetimeMin == 0 - 1

\* extract_date_from_index: the sort key of an index name in INFO.md.
ExtractDateFromIndex(ind) ==
    IF ind.date_part = <<>> \/ ~ValidDate(ind.date_part)
    THEN DatetimeMin
    ELSE IF Len(ind.date_part) = 2
         THEN DateTick(ind.date_part[2], 1)
         ELSE DateTick(ind.date_part[2], ind.date_part[3])

\* The names of type fields that end in "Type", and the extra conditions that
\* begin with "AND ", among the strings the configurations here use.
EndsWithType(s) == s \in {"Type", "EventType", "Event.Type"}
StartsWithAnd(s) == s \in {"AND x=1"}

\* The three replace calls for an "accounts" index: they remove the type
\* clause where the text "Type='' AND " occurs, that is, for an empty event
\* type followed directly by an "AND".
AccountsStripsType(c) ==
    /\ c.event_type = ""
    /\ EndsWithType(c.name_of_type)
    /\ \/ StartsWithAnd(c.extra_condition)
       \/ c.extra_condition = "" /\ HasRange(c)

\* handle_index_without_date
HandleIndexWithoutDate(c, ind, dir, rq, field) ==
    LET cond == IF HasRange(c)
                THEN RegularCondition(field, c.gte, c.lte, TRUE, TimeFormat(c))
                ELSE NoCondition
        q == GetQuery(c, ind, cond)
    IN  Append(rq,
          [query |-> [q EXCEPT !.type_clause =
                         ~(ind.accounts /\ AccountsStripsType(c))],
           file |-> FullFile(dir, ind)])

\* random.shuffle, restricted to the rotations and reflections of the list
\* that the seeds 0 .. MaxSeed select.
Rotate(s, k) ==
    [i \in 1..Len(s) |-> s[((i - 1 + k) % Len(s)) + 1]]

Reverse(s) == [i \in 1..Len(s) |-> s[Len(s) + 1 - i]]

Shuffle(s, seed) ==
    IF Len(s) = 0 THEN s
    ELSE IF seed % 2 = 0 THEN Rotate(s, seed \div 2)
         ELSE Reverse(Rotate(s, seed \div 2))

\* The time field of the conditions: date_range when set, else the
\* downloader's default_timefield.
DefaultTimefield == "event.time"
TimeField(c) == IF c.date_range # "" THEN c.date_range ELSE DefaultTimefield

\* prepare_queries: the loop over configurator.indexes from position i on.
\* done = TRUE is the return inside the loop, which skips the shuffle.
RECURSIVE IndexLoop(_, _, _, _)
IndexLoop(c, dir, rq, i) ==
    IF i > Len(c.indexes)
    THEN [queries |-> rq, returned_early |-> FALSE]
    ELSE LET ind == c.indexes[i]
         IN  IF ind.date_part = <<>>
             THEN [queries |-> HandleIndexWithoutDate(c, ind, dir, rq, TimeField(c)),
                   returned_early |-> TRUE]
             ELSE LET p == ParseDateFromIndex(ind.date_part)
                  IN  IndexLoop(c, dir,
                        CreateQueriesForDateRange(c, ind, dir, rq, p.start_date,
                            p.start_date, p.end_date, p.is_compressed_index,
                            TimeField(c)),
                        i + 1)

\* prepare_queries raises: the loop reaches an index whose date token
\* strptime rejects before it reaches an index without a date token.
RECURSIVE PrepareQueriesRaisesFrom(_, _)
PrepareQueriesRaisesFrom(c, i) ==
    IF i > Len(c.indexes) THEN FALSE
    ELSE IF c.indexes[i].date_part = <<>> THEN FALSE
         ELSE IF ~ValidDate(c.indexes[i].date_part) THEN TRUE
              ELSE PrepareQueriesRaisesFrom(c, i + 1)

PrepareQueriesResult(c, dir, seed) ==
    LET r == IndexLoop(c, dir, <<>>, 1)
    IN  IF r.returned_early THEN r.queries ELSE Shuffle(r.queries, seed)

----------------------------------------------------------------------------
(* Tables, the backend, aggregation and output *)

\* A table is a sequence of rows [index, t, a]: t is the row's time value
\* and a its other value.  The columns of every table of a run are the
\* configured fields, so one set of column names stands for all of them.

\* The column names of the tables: df_columns of the get_dataframe call and
\* prepare_header, which drop "@" and "`" and replace "." by "_".
ColumnsOf(fields) ==
    CASE fields = "event.time, a" -> {"event_time", "a"}
      [] fields = "timestamp, a" -> {"timestamp", "a"}
      [] OTHER -> {fields}

\* sort_timefield of download_data_parallel
SortTimefield == "event_time"

\* self.get_dataframe(query, ...): the rows of the queried index whose time
\* satisfies the query's hour condition, in the backend's order.
Satisfies(t, h) ==
    CASE h.kind = "regular" ->
            t >= h.start /\ (IF h.closed THEN t <= h.end ELSE t < h.end)
      [] h.kind = "extra" ->
            /\ t < h.start \/ t >= h.end
            /\ h.has_range => (t >= h.gte /\ t < h.lte)
      [] OTHER -> TRUE

RowMatches(q, r) == r.index = q.index /\ Satisfies(r.t, q.hour_condition)

GetDataframe(q) == SelectSeq(db, LAMBDA r : RowMatches(q, r))

\* The rows of s in the order of sort_values: ascending or descending time.
RECURSIVE InsertRow(_, _, _)
InsertRow(sorted, r, ascending) ==
    IF sorted = <<>>
    THEN <<r>>
    ELSE IF (IF ascending THEN r.t < Head(sorted).t ELSE r.t > Head(sorted).t)
         THEN <<r>> \o sorted
         ELSE <<Head(sorted)>> \o InsertRow(Tail(sorted), r, ascending)

RECURSIVE SortValues(_, _)
SortValues(df, ascending) ==
    IF df = <<>> THEN <<>>
    ELSE InsertRow(SortValues(Tail(df), ascending), Head(df), ascending)

\* sort_dataframe_by_time with the direction ignored.
SortDataframeAscendingOnly(df, columns, sort_timefield, ascending) ==
    IF df # <<>> /\ (sort_timefield \in columns \/ "timestamp" \in columns)
    THEN SortValues(df, TRUE)
    ELSE df

\* sort_dataframe_by_time
SortDataframeByTime(df, columns, sort_timefield, ascending) ==
    IF df # <<>>
    THEN IF sort_timefield \in columns
         THEN SortValues(df, ascending)
         ELSE IF "timestamp" \in columns
              THEN SortValues(df, ascending)
              ELSE df
    ELSE df

\* pd.concat of a sequence of tables
RECURSIVE Concat(_)
Concat(dfs) == IF dfs = <<>> THEN <<>> ELSE Head(dfs) \o Concat(Tail(dfs))

\* read_dataframes: the non-empty tables of the files that exist, in order.
RECURSIVE ReadDataframes(_)
ReadDataframes(temporary_files) ==
    IF temporary_files = <<>>
    THEN <<>>
    ELSE LET f == Head(temporary_files)
             rest == ReadDataframes(Tail(temporary_files))
         IN  IF f \in DOMAIN files /\ files[f].rows # <<>>
             THEN <<files[f].rows>> \o rest
             ELSE rest

\* concat_in_chunks that forgets the tables left in the buffer at the end.
RECURSIVE ConcatInChunksDropRest(_, _, _)
ConcatInChunksDropRest(dfs, buffer, chunk_size) ==
    IF dfs = <<>>
    THEN <<>>
    ELSE LET b == Append(buffer, Head(dfs))
         IN  IF Len(b) >= chunk_size
             THEN <<Concat(b)>> \o ConcatInChunksDropRest(Tail(dfs), <<>>, chunk_size)
             ELSE ConcatInChunksDropRest(Tail(dfs), b, chunk_size)

\* concat_in_chunks: the tables concatenated chunk_size at a time.
RECURSIVE ConcatInChunks(_, _, _)
ConcatInChunks(dfs, buffer, chunk_size) ==
    IF dfs = <<>>
    THEN IF buffer # <<>> THEN <<Concat(buffer)>> ELSE <<>>
    ELSE LET b == Append(buffer, Head(dfs))
         IN  IF Len(b) >= chunk_size
             THEN <<Concat(b)>> \o ConcatInChunks(Tail(dfs), <<>>, chunk_size)
             ELSE ConcatInChunks(Tail(dfs), b, chunk_size)

\* aggregate_data_to_variable
AggregateDataToVariable(temporary_files, c, sort_timefield) ==
    IF Len(temporary_files) = 0
    THEN <<>>
    ELSE SortDataframeByTime(
             Concat(ConcatInChunks(ReadDataframes(temporary_files), <<>>, ChunkSize)),
             ColumnsOf(c.fields), sort_timefield, c.ascending)

\* The order of two index names as strings: by the name before the "-", then
\* by the zero-padded numbers of the date token.
NameOrder == <<"accounts", "logs", "metrics">>
NameRank(n) == CHOOSE i \in DOMAIN NameOrder : NameOrder[i] = n

RECURSIVE TokenLess(_, _)
TokenLess(a, b) ==
    IF a = <<>> \/ b = <<>>
    THEN \* the longer token continues with ".", which sorts before the "/"
         \* that follows the shorter one in a path
         a # <<>> /\ b = <<>>
    ELSE IF Head(a) # Head(b) THEN Head(a) < Head(b)
         ELSE TokenLess(Tail(a), Tail(b))

IndexLess(a, b) ==
    IF a.name # b.name THEN NameRank(a.name) < NameRank(b.name)
    ELSE TokenLess(a.date_part, b.date_part)

\* The order of file names within one index directory: a digit sorts before
\* the "e" of "extra", and that before the "f" of "full".
KindRank(k) == CASE k = "regular" -> 0 [] k = "extra" -> 1 [] OTHER -> 2

\* The order of two cache file paths as strings.
PathLess(f, g) ==
    IF f.ind # g.ind THEN IndexLess(f.ind, g.ind)
    ELSE IF f.kind # g.kind THEN KindRank(f.kind) < KindRank(g.kind)
         ELSE IF f.start # g.start THEN f.start < g.start
              ELSE f.end < g.end

RECURSIVE InsertPath(_, _, _)
InsertPath(sorted, f, reverse) ==
    IF sorted = <<>>
    THEN <<f>>
    ELSE IF (IF reverse THEN PathLess(Head(sorted), f) ELSE PathLess(f, Head(sorted)))
         THEN <<f>> \o sorted
         ELSE <<Head(sorted)>> \o InsertPath(Tail(sorted), f, reverse)

\* sorted(all_temp_files, reverse=...)
RECURSIVE SortedPaths(_, _)
SortedPaths(paths, reverse) ==
    IF paths = <<>> THEN <<>>
    ELSE InsertPath(SortedPaths(Tail(paths), reverse), Head(paths), reverse)

\* all_temp_files: what executor.map yields, in the order of the queries,
\* without the None results.
RECURSIVE AllTempFilesFrom(_)
AllTempFilesFrom(i) ==
    IF i > Len(result_queries)
    THEN <<>>
    ELSE IF results[i] = "path"
         THEN <<result_queries[i].file>> \o AllTempFilesFrom(i + 1)
         ELSE AllTempFilesFrom(i + 1)

TemporaryFiles == SortedPaths(AllTempFilesFrom(1), ~configurator.ascending)

\* The loop that writes the output file: each existing cache file's table,
\* sorted by itself, appended in the order of temporary_files.
RECURSIVE WrittenRows(_, _)
WrittenRows(temporary_files, c) ==
    IF temporary_files = <<>>
    THEN <<>>
    ELSE LET f == Head(temporary_files)
         IN  (IF f \in DOMAIN files
              THEN SortDataframeByTime(files[f].rows, ColumnsOf(c.fields),
                                       SortTimefield, c.ascending)
              ELSE <<>>)
             \o WrittenRows(Tail(temporary_files), c)

----------------------------------------------------------------------------
(* The main flow up to the worker pool *)

\* QueryConfigurator.__init__: the logger is made by _create_logger, which
\* opens the query log file, outside a container and with a verbosity above
\* BASIC and below FULL_LOGGING.
HasQueryLog(a) == ~a.isin_container /\ a.verbose > 0 /\ a.verbose < FullLogging

\* QueryConfigurator(...): _create_logger opens the query log file in the
\* working directory.
Construct(a) ==
    /\ pc = "new"
    /\ args' = a
    /\ configurator' = NewConfigurator(a)
    /\ query_log' = IF HasQueryLog(a) THEN query_log \cup {Cwd} ELSE query_log
    /\ pc' = "constructed"
    /\ UNCHANGED <<run, temp_dir, is_old_cache, disk, db, memory_thread,
                   result_queries, pool, result_df, earlier, info, faults,
                   summary>>

\* The index names of a sequence of indexes.
IndexSet(indexes) == {indexes[i] : i \in DOMAIN indexes}

\* sorted(current_indexes, key=extract_date_from_index): the orders of a set
\* of names that ascend in the key; names with equal keys keep the set's
\* iteration order, which is any order.
SortedIndexes(names) ==
    {s \in [1..Cardinality(names) -> names] :
        /\ \A i, j \in DOMAIN s : i # j => s[i] # s[j]
        /\ \A i, j \in DOMAIN s :
              i < j => ExtractDateFromIndex(s[i]) <= ExtractDateFromIndex(s[j])}

\* write_instance_info: the names INFO.md will list, those it lists now
\* and those of the configurator.
WriteInstanceInfo(c, dir) ==
    (IF dir \in DOMAIN info THEN IndexSet(info[dir]) ELSE {}) \cup IndexSet(c.indexes)

\* download_data_parallel: the first log line formats the configurator, and
\* QueryConfigurator.__str__ reads self.indexes[0]: with an empty list of
\* indexes it raises IndexError, before anything else is done.
StrRaises(c) == Len(c.indexes) = 0

DownloadRaisesAtStart ==
    /\ pc = "constructed"
    /\ StrRaises(configurator)
    /\ pc' = "raised"
    /\ UNCHANGED <<run, args, configurator, temp_dir, is_old_cache, disk, db,
                   memory_thread, result_queries, pool, result_df, earlier, side>>

\* download_data_parallel: create_cache_dir, and write_instance_info when
\* the cache is kept.
CreateCacheDir ==
    /\ pc = "constructed"
    /\ ~StrRaises(configurator)
    /\ temp_dir' = GenerateUniqueDirName(configurator)
    /\ is_old_cache' = (temp_dir' \in dirs)
    /\ dirs' = dirs \cup {temp_dir'}
    /\ IF configurator.temp_files
       THEN \E s \in SortedIndexes(WriteInstanceInfo(configurator, temp_dir')) :
               info' = [d \in DOMAIN info \cup {temp_dir'} |->
                           IF d = temp_dir' THEN s ELSE info[d]]
       ELSE UNCHANGED info
    /\ pc' = "monitor"
    /\ UNCHANGED <<run, args, configurator, files, output, db, memory_thread,
                   result_queries, pool, result_df, earlier, query_log, faults,
                   summary>>

\* create_cache_dir raises: os.makedirs fails, and nothing catches it.
CreateCacheDirRaises ==
    /\ pc = "constructed"
    /\ ~StrRaises(configurator)
    /\ faults' = faults \cup {"create"}
    /\ pc' = "raised"
    /\ UNCHANGED <<run, args, configurator, temp_dir, is_old_cache, disk, db,
                   memory_thread, result_queries, pool, result_df, earlier,
                   info, query_log, summary>>

\* download_data_parallel: the counters are set to 0 and, outside a
\* container, the memory monitor thread is started.
StartMonitor ==
    /\ pc = "monitor"
    /\ memory_thread' = IF configurator.isin_container THEN "unstarted" ELSE "running"
    /\ success_count' = 0
    /\ error_count' = 0
    /\ pc' = "prepare"
    /\ UNCHANGED <<run, args, configurator, temp_dir, is_old_cache, disk, db,
                   result_queries, queue_next, wpc, wtask, wfile, wtmp, results,
                   counter_lock, pbar, outcome, result_df, earlier, side>>

\* download_data_parallel: prepare_queries, and the pool's queue is filled.
PrepareQueries(seed) ==
    /\ pc = "prepare"
    /\ ~PrepareQueriesRaisesFrom(configurator, 1)
    /\ result_queries' = PrepareQueriesResult(configurator, temp_dir, seed)
    /\ results' = [i \in DOMAIN result_queries' |-> "pending"]
    /\ outcome' = [i \in DOMAIN result_queries' |-> "pending"]
    /\ queue_next' = 1
    /\ pc' = "pool"
    /\ UNCHANGED <<run, args, configurator, temp_dir, is_old_cache, disk, db,
                   memory_thread, wpc, wtask, wfile, wtmp, success_count,
                   error_count, counter_lock, pbar, result_df, earlier, side>>

\* download_data_parallel: prepare_queries raises.  The call stands before
\* the try statement, so the exception leaves download_data_parallel.
PrepareQueriesRaises ==
    /\ pc = "prepare"
    /\ PrepareQueriesRaisesFrom(configurator, 1)
    /\ pc' = "raised"
    /\ UNCHANGED <<run, args, configurator, temp_dir, is_old_cache, disk, db,
                   memory_thread, result_queries, pool, result_df, earlier, side>>

----------------------------------------------------------------------------
(* The worker pool: _process_single_query *)

\* download_data_parallel's choice of Tqdm: DummyTqdm in a container and
\* with FULL_LOGGING, else `tqdm`, which `import tqdm` binds to the module.
UsesDummyTqdm(c) == c.isin_container \/ ~(c.verbose < FullLogging)

\* with Tqdm(total=...) where Tqdm is the module tqdm: calling a module
\* raises TypeError.  The call is inside the try statement: the except
\* clause re-raises and the finally clause runs finalize_process.  The pool
\* is never created.
ProgressBarRaises ==
    /\ pc = "pool" /\ queue_next = 1
    /\ ~UsesDummyTqdm(configurator)
    /\ pc' = "finalize"
    /\ UNCHANGED <<run, args, configurator, temp_dir, is_old_cache, disk, db,
                   memory_thread, result_queries, pool, result_df, earlier, side>>

\* max_workers of the ThreadPoolExecutor
NumThreads == Min(args.num_threads, Len(result_queries))
Workers == 1..MaxThreads

LockFreeAlways == TRUE

\* counter_lock can be acquired.
LockFree == counter_lock = 0

\* The existence check left out: every query is fetched.
CacheHitNever(f) == FALSE

\* os.path.exists(temp_filename) for a worker's query.
CacheHit(f) == f \in DOMAIN files

\* A worker takes the next query from the queue and checks its cache file.
WorkerStart(w) ==
    /\ pc = "pool" /\ w <= NumThreads
    /\ UsesDummyTqdm(configurator)
    /\ wpc[w] = "idle"
    /\ queue_next <= Len(result_queries)
    /\ wtask' = [wtask EXCEPT ![w] = queue_next]
    /\ queue_next' = queue_next + 1
    /\ IF CacheHit(result_queries[queue_next].file)
       THEN /\ wpc' = [wpc EXCEPT ![w] = "lock_success"]
            /\ outcome' = [outcome EXCEPT ![queue_next] = "hit"]
       ELSE /\ wpc' = [wpc EXCEPT ![w] = "fetch"]
            /\ UNCHANGED outcome
    /\ UNCHANGED <<pc, run, args, configurator, temp_dir, is_old_cache, disk, db,
                   memory_thread, result_queries, wfile, wtmp, results,
                   success_count, error_count, counter_lock, pbar, result_df,
                   earlier, side>>

\* An except branch that never ends the process.
ExitsOnErrorNever(c) == FALSE

\* What the except branch does with an exception of the backend call:
\* os._exit(1) unless exceptions are ignored.
ExitsOnError(c) == ~c.ignore_exceptions

\* self.get_dataframe raises.
WorkerFetchRaises(w) ==
    /\ pc = "pool" /\ wpc[w] = "fetch"
    /\ outcome' = [outcome EXCEPT ![wtask[w]] = "error"]
    /\ IF ExitsOnError(configurator)
       THEN pc' = "exited" /\ UNCHANGED wpc
       ELSE pc' = pc /\ wpc' = [wpc EXCEPT ![w] = "lock_error"]
    /\ UNCHANGED <<run, args, configurator, temp_dir, is_old_cache, disk, db,
                   memory_thread, result_queries, queue_next, wtask, wfile, wtmp,
                   results, success_count, error_count, counter_lock, pbar,
                   result_df, earlier, side>>

\* An empty result that leaves temp_filename as it is.
FilenameKeptAfterEmpty == "path"

\* temp_filename = None, the assignment after an empty result.
FilenameAfterEmpty == "none"

\* self.get_dataframe returns: a table with rows is to be pickled, an empty
\* one sets temp_filename to None.
WorkerFetchReturns(w) ==
    /\ pc = "pool" /\ wpc[w] = "fetch"
    /\ IF GetDataframe(result_queries[wtask[w]].query) # <<>>
       THEN /\ wpc' = [wpc EXCEPT ![w] = "write"]
            /\ outcome' = [outcome EXCEPT ![wtask[w]] = "rows"]
            /\ UNCHANGED wfile
       ELSE /\ wpc' = [wpc EXCEPT ![w] = "lock_success"]
            /\ outcome' = [outcome EXCEPT ![wtask[w]] = "empty"]
            /\ wfile' = [wfile EXCEPT ![w] = FilenameAfterEmpty]
    /\ UNCHANGED <<pc, run, args, configurator, temp_dir, is_old_cache, disk, db,
                   memory_thread, result_queries, queue_next, wtask, wtmp,
                   results, success_count, error_count, counter_lock, pbar,
                   result_df, earlier, side>>

\* data.to_pickle opens the cache file: it exists and is not yet complete.
WorkerWriteOpen(w) ==
    /\ pc = "pool" /\ wpc[w] = "write"
    /\ LET f == result_queries[wtask[w]].file
       IN  files' = [g \in DOMAIN files \cup {f} |->
                        IF g = f THEN [rows |-> <<>>, complete |-> FALSE]
                        ELSE files[g]]
    /\ wpc' = [wpc EXCEPT ![w] = "writing"]
    /\ UNCHANGED <<pc, run, args, configurator, temp_dir, is_old_cache, dirs,
                   output, db, memory_thread, result_queries, queue_next, wtask,
                   wfile, wtmp, results, success_count, error_count,
                   counter_lock, pbar, result_df, outcome, earlier, side>>

\* data.to_pickle finishes: the cache file holds the table.
WorkerWriteClose(w) ==
    /\ pc = "pool" /\ wpc[w] = "writing"
    /\ LET f == result_queries[wtask[w]].file
       IN  files' = [g \in DOMAIN files \cup {f} |->
                        IF g = f
                        THEN [rows |-> GetDataframe(result_queries[wtask[w]].query),
                              complete |-> TRUE]
                        ELSE files[g]]
    /\ wpc' = [wpc EXCEPT ![w] = "lock_success"]
    /\ UNCHANGED <<pc, run, args, configurator, temp_dir, is_old_cache, dirs,
                   output, db, memory_thread, result_queries, queue_next, wtask,
                   wfile, wtmp, results, success_count, error_count,
                   counter_lock, pbar, result_df, outcome, earlier, side>>

\* with counter_lock: the lock is taken and the counter read.
WorkerAcquire(w) ==
    /\ pc = "pool" /\ wpc[w] \in {"lock_success", "lock_error"}
    /\ LockFree
    /\ counter_lock' = w
    /\ wtmp' = [wtmp EXCEPT ![w] =
                   IF wpc[w] = "lock_success" THEN success_count ELSE error_count]
    /\ wpc' = [wpc EXCEPT ![w] =
                   IF wpc[w] = "lock_success" THEN "store_success" ELSE "store_error"]
    /\ UNCHANGED <<pc, run, args, configurator, temp_dir, is_old_cache, disk, db,
                   memory_thread, result_queries, queue_next, wtask, wfile,
                   results, success_count, error_count, pbar, result_df, outcome,
                   earlier, side>>

\* success_count += 1 or error_count += 1 is stored and the lock released.
WorkerRelease(w) ==
    /\ pc = "pool" /\ wpc[w] \in {"store_success", "store_error"}
    /\ IF wpc[w] = "store_success"
       THEN success_count' = wtmp[w] + 1 /\ UNCHANGED error_count
       ELSE error_count' = wtmp[w] + 1 /\ UNCHANGED success_count
    /\ counter_lock' = 0
    /\ wpc' = [wpc EXCEPT ![w] = "return"]
    /\ UNCHANGED <<pc, run, args, configurator, temp_dir, is_old_cache, disk, db,
                   memory_thread, result_queries, queue_next, wtask, wfile, wtmp,
                   results, pbar, result_df, outcome, earlier, side>>

\* pbar.update(1) and return temp_filename.  DummyTqdm.update does nothing.
WorkerReturn(w) ==
    /\ pc = "pool" /\ wpc[w] = "return"
    /\ pbar' = IF UsesDummyTqdm(configurator) THEN pbar ELSE pbar + 1
    /\ results' = [results EXCEPT ![wtask[w]] = wfile[w]]
    /\ wpc' = [wpc EXCEPT ![w] = "idle"]
    /\ wtask' = [wtask EXCEPT ![w] = 0]
    /\ wfile' = [wfile EXCEPT ![w] = "path"]
    /\ UNCHANGED <<pc, run, args, configurator, temp_dir, is_old_cache, disk, db,
                   memory_thread, result_queries, queue_next, wtmp, success_count,
                   error_count, counter_lock, result_df, outcome, earlier, side>>

----------------------------------------------------------------------------
(* The main flow after the pool *)

PoolDrained ==
    /\ queue_next > Len(result_queries)
    /\ \A w \in Workers : wpc[w] = "idle"

\* The executor's with block ends: every query has returned.
PoolDone ==
    /\ pc = "pool" /\ Len(result_queries) > 0
    /\ PoolDrained
    /\ pc' = IF configurator.return_df THEN "aggregate" ELSE "write"
    /\ UNCHANGED <<run, args, configurator, temp_dir, is_old_cache, disk, db,
                   memory_thread, result_queries, pool, result_df, earlier, side>>

\* return_df: aggregate_data_to_variable
Aggregate ==
    /\ pc = "aggregate"
    /\ result_df' = AggregateDataToVariable(TemporaryFiles, configurator, SortTimefield)
    /\ pc' = "finalize"
    /\ UNCHANGED <<run, args, configurator, temp_dir, is_old_cache, disk, db,
                   memory_thread, result_queries, pool, earlier, side>>

\* os.path.splitext(output_file)[1] of the output file names used here.
FileExtension(name) ==
    CASE name = "login_out.csv" -> ".csv"
      [] name = "login_out.json" -> ".json"
      [] OTHER -> ""

\* The run ends by raising "Unsupported file extension".
UnsupportedExtension(c) == ~c.return_df /\ FileExtension(c.output_filename) # ".csv"

\* The run reaches finalize_process through the except clause, which
\* re-raises: the progress bar could not be made, or the extension is not
\* supported.
RunRaises(c) == ~UsesDummyTqdm(c) \/ UnsupportedExtension(c)

\* The else branch of the extension test raises ValueError; the except
\* clause re-raises it and the finally clause runs finalize_process.
WriteOutputRaises ==
    /\ pc = "write"
    /\ FileExtension(configurator.output_filename) # ".csv"
    /\ pc' = "finalize"
    /\ UNCHANGED <<run, args, configurator, temp_dir, is_old_cache, disk, db,
                   memory_thread, result_queries, pool, result_df, earlier, side>>

\* The output file is opened with mode "w", the header and the tables written.
WriteOutput ==
    /\ pc = "write"
    /\ FileExtension(configurator.output_filename) = ".csv"
    /\ output' = [exists |-> TRUE,
                  rows |-> WrittenRows(TemporaryFiles, configurator)]
    /\ pc' = "finalize"
    /\ UNCHANGED <<run, args, configurator, temp_dir, is_old_cache, dirs, files,
                   db, memory_thread, result_queries, pool, result_df, earlier, side>>

\* A cleanup test that ignores whether the directory is old.
DeletesCacheDirWhateverAge(c, old) == ~c.temp_files

\* finalize_process: the test that guards delete_directory.
DeletesCacheDir(c, old) == ~c.temp_files /\ ~old

\* An except clause of delete_directory that lets the exception through.
DeleteDirectoryPropagates == FALSE

\* delete_directory catches the exception of shutil.rmtree.
DeleteDirectorySwallows == TRUE

\* A finalize_process that calls summary before it joins the monitor.
MonitorAtSummaryUnjoined(before, after) == before

\* finalize_process calls summary after stop_monitoring.set() and
\* memory_thread.join(): the summary is made with the monitor as the join
\* left it.
MonitorAtSummary(before, after) == after

\* finalize_process: the monitor is stopped and joined, the summary logged,
\* the query log moved into a kept cache directory, and a cache directory
\* that is neither kept nor old is deleted.  move_ok and delete_ok say
\* whether shutil.move and shutil.rmtree succeed.  The run then returns, or
\* raises the exception that brought it here.
FinalizeProcess(move_ok, delete_ok) ==
    /\ pc = "finalize"
    /\ memory_thread' = IF configurator.isin_container THEN memory_thread ELSE "joined"
    /\ summary' = [sent |-> TRUE,
                   memory_thread |-> MonitorAtSummary(memory_thread, memory_thread'),
                   success_count |-> success_count,
                   error_count |-> error_count,
                   workers_running |-> {w \in Workers : wpc[w] # "idle"}]
    /\ LET moves == configurator.temp_files /\ Cwd \in query_log
           deletes == DeletesCacheDir(configurator, is_old_cache) /\ temp_dir \in dirs
       IN  /\ query_log' = IF moves /\ move_ok
                           THEN (query_log \ {Cwd}) \cup {temp_dir}
                           ELSE query_log
           /\ IF deletes /\ delete_ok
              THEN /\ dirs' = dirs \ {temp_dir}
                   /\ files' = [f \in {g \in DOMAIN files : g.dir # temp_dir} |-> files[f]]
                   /\ info' = [d \in DOMAIN info \ {temp_dir} |-> info[d]]
              ELSE UNCHANGED <<dirs, files, info>>
           /\ faults' = faults \cup (IF moves /\ ~move_ok THEN {"move"} ELSE {})
                                \cup (IF deletes /\ ~delete_ok THEN {"delete"} ELSE {})
           /\ pc' = IF deletes /\ ~delete_ok /\ ~DeleteDirectorySwallows
                    THEN "raised"
                    ELSE IF RunRaises(configurator) THEN "raised" ELSE "done"
    /\ UNCHANGED <<run, args, configurator, temp_dir, is_old_cache, output, db,
                   result_queries, pool, result_df, earlier>>

\* finalize_process when the file operations succeed.
Finalize == FinalizeProcess(TRUE, TRUE)

\* What a run leaves in the history.
RunRecord ==
    [run |-> run, configurator |-> configurator, temp_dir |-> temp_dir,
     result_queries |-> result_queries, outcome |-> outcome, ended |-> pc]

\* The state of a process that has just started: nothing but the disk and
\* the backend is kept from the process before it.
FreshProcess ==
    /\ pc' = "new"
    /\ run' = run + 1
    /\ earlier' = earlier \cup {RunRecord}
    /\ configurator' = NoConfigurator
    /\ temp_dir' = NoDir
    /\ is_old_cache' = FALSE
    /\ memory_thread' = "unstarted"
    /\ result_queries' = <<>>
    /\ queue_next' = 1
    /\ wpc' = [w \in Workers |-> "idle"]
    /\ wtask' = [w \in Workers |-> 0]
    /\ wfile' = [w \in Workers |-> "path"]
    /\ wtmp' = [w \in Workers |-> 0]
    /\ results' = <<>>
    /\ success_count' = 0
    /\ error_count' = 0
    /\ counter_lock' = 0
    /\ pbar' = 0
    /\ result_df' = <<>>
    /\ outcome' = <<>>
    /\ faults' = {}
    /\ summary' = NoSummary
    /\ UNCHANGED <<args, disk, db, info, query_log>>

\* The program is run again after a run that returned or exited.
NewRun ==
    /\ pc \in {"done", "exited", "raised"}
    /\ run < MaxRuns
    /\ FreshProcess

\* The process is stopped from outside before the pool has taken a query,
\* and the program is run again.
Interrupt ==
    /\ pc = "pool" /\ queue_next = 1
    /\ run < MaxRuns
    /\ FreshProcess

----------------------------------------------------------------------------
(* Initial states *)

DayIndex == [name |-> "logs", accounts |-> FALSE, date_part |-> <<2024, 1, 2>>]

FirstInstant == TicksPerDay - MarginHours * TicksPerHour
LastInstant == 2 * TicksPerDay + MarginHours * TicksPerHour
Instants == FirstInstant..LastInstant

BaseArgs ==
    [indexes |-> <<DayIndex>>, fields |-> "event.time, a",
     name_of_type |-> "EventType", event_type |-> "login",
     extra_condition |-> "", output_filename |-> "login_out.csv",
     ascending |-> TRUE, isin_container |-> FALSE, temp_files |-> TRUE,
     return_df |-> FALSE, gte |-> NoTime, lte |-> NoTime, date_range |-> "",
     ignore_exceptions |-> FALSE, time_step |-> DefaultTimeStep,
     verbose |-> FullLogging, num_threads |-> 1]

InitWith(rows) ==
    /\ pc = "new"
    /\ run = 1
    /\ args = BaseArgs
    /\ configurator = NoConfigurator
    /\ temp_dir = NoDir
    /\ is_old_cache = FALSE
    /\ dirs = {}
    /\ files = <<>>
    /\ output = [exists |-> FALSE, rows |-> <<>>]
    /\ db = rows
    /\ memory_thread = "unstarted"
    /\ result_queries = <<>>
    /\ queue_next = 1
    /\ wpc = [w \in Workers |-> "idle"]
    /\ wtask = [w \in Workers |-> 0]
    /\ wfile = [w \in Workers |-> "path"]
    /\ wtmp = [w \in Workers |-> 0]
    /\ results = <<>>
    /\ success_count = 0
    /\ error_count = 0
    /\ counter_lock = 0
    /\ pbar = 0
    /\ result_df = <<>>
    /\ outcome = <<>>
    /\ earlier = {}
    /\ info = <<>>
    /\ query_log = {}
    /\ faults = {}
    /\ summary = NoSummary

----------------------------------------------------------------------------
(* The partitioner over one day index, every window size and every range *)

PrepareArgs ==
    {[BaseArgs EXCEPT !.time_step = w, !.gte = g, !.lte = l] :
        w \in -1..MaxTimeStepArg, g \in Instants \cup {NoTime},
        l \in Instants \cup {NoTime}}

InitPrepare == InitWith(<<>>)

NextPrepare ==
    \/ pc = "new" /\ \E a \in PrepareArgs : Construct(a)
    \/ CreateCacheDir
    \/ StartMonitor
    \/ \E seed \in 0..MaxSeed : PrepareQueries(seed)

SpecPrepare == InitPrepare /\ [][NextPrepare]_vars

Covering(t) ==
    {i \in DOMAIN result_queries : Satisfies(t, result_queries[i].query.hour_condition)}

----------------------------------------------------------------------------
(* Runs of the whole pipeline over one day index with 12-hour windows *)

\* Rows of the day index: one of the evening before the day, which only the
\* extra SubQuery selects, one of the morning and one of the afternoon.
RowEarly == [index |-> DayIndex, t |-> TicksPerDay - TicksPerHour, a |-> 1]
RowMorning == [index |-> DayIndex, t |-> TicksPerDay + TicksPerHour, a |-> 2]
RowNoon == [index |-> DayIndex, t |-> TicksPerDay + 13 * TicksPerHour, a |-> 3]

RunDBs == {<<RowNoon, RowEarly, RowMorning>>, <<RowNoon, RowEarly>>}

RunArgs ==
    {[BaseArgs EXCEPT !.time_step = MaxTimeStep, !.num_threads = MaxThreads,
                      !.ignore_exceptions = i, !.return_df = r,
                      !.temp_files = k] :
        i \in BOOLEAN, r \in BOOLEAN, k \in BOOLEAN}

Init == \E rows \in RunDBs : InitWith(rows)

WorkerStep(w) ==
    \/ WorkerStart(w)
    \/ WorkerFetchRaises(w)
    \/ WorkerFetchReturns(w)
    \/ WorkerWriteOpen(w)
    \/ WorkerWriteClose(w)
    \/ WorkerAcquire(w)
    \/ WorkerRelease(w)
    \/ WorkerReturn(w)

AfterPool ==
    \/ PoolDone
    \/ Aggregate
    \/ WriteOutput
    \/ Finalize

\* The session runs the program and then runs it again with the same arguments.
Next ==
    \/ pc = "new" /\ \E a \in (IF run = 1 THEN RunArgs ELSE {args}) : Construct(a)
    \/ CreateCacheDir
    \/ StartMonitor
    \/ \E seed \in 0..MaxSeed : PrepareQueries(seed)
    \/ \E w \in Workers : WorkerStep(w)
    \/ AfterPool
    \/ NewRun

Spec == Init /\ [][Next]_vars

----------------------------------------------------------------------------
(* Single runs with one worker thread over many cache files *)

\* A row inside hour h of the day.
HourRow(h) == [index |-> DayIndex, t |-> TicksPerDay + h * TicksPerHour + 1, a |-> h]

\* One row in each 2-hour window of the day, in no time order, and one row
\* of the evening before: 13 cache files hold data when time_step is 2.
DenseDB ==
    [i \in 1..13 |-> IF i = 13 THEN RowEarly ELSE HourRow(((i * 5) % 12) * 2)]

OutputDBs == {DenseDB, <<RowNoon, RowEarly, RowMorning>>, <<RowNoon, HourRow(13)>>}

OutputArgs ==
    {[BaseArgs EXCEPT !.time_step = w, !.fields = f, !.ascending = asc,
                      !.return_df = r] :
        w \in {2, MaxTimeStep}, f \in {"event.time, a", "timestamp, a", "a"},
        asc \in BOOLEAN, r \in BOOLEAN}

InitOutput == \E rows \in OutputDBs : InitWith(rows)

NextOutput ==
    \/ pc = "new" /\ \E a \in OutputArgs : Construct(a)
    \/ CreateCacheDir
    \/ StartMonitor
    \/ \E seed \in 0..MaxSeed : PrepareQueries(seed)
    \/ \E w \in Workers : WorkerStep(w)
    \/ AfterPool

SpecOutput == InitOutput /\ [][NextOutput]_vars

----------------------------------------------------------------------------
(* Configurations partitioned one after another into the cache storage *)

RangeStart == TicksPerDay + TicksPerHour
RangeEnd == TicksPerDay + 3 * TicksPerHour

CacheArgs ==
    {[BaseArgs EXCEPT !.fields = f, !.name_of_type = n, !.event_type = e,
                      !.extra_condition = x, !.time_step = w, !.date_range = d,
                      !.gte = g[1], !.lte = g[2], !.return_df = r] :
        f \in {"id", "idEvent"}, n \in {"EventType", "Type"},
        e \in {"login", ""}, x \in {"", "AND x=1"}, w \in {6, MaxTimeStep},
        d \in {"", "ingest_time"},
        g \in {<<NoTime, NoTime>>, <<RangeStart, RangeEnd>>}, r \in BOOLEAN}

InitCache == InitWith(<<>>)

NextCache ==
    \/ pc = "new" /\ \E a \in CacheArgs : Construct(a)
    \/ CreateCacheDir
    \/ StartMonitor
    \/ \E seed \in 0..MaxSeed : PrepareQueries(seed)
    \/ Interrupt

SpecCache == InitCache /\ [][NextCache]_vars

----------------------------------------------------------------------------
(* Single runs with every way a run can end *)

\* An index whose date token strptime rejects.
BadIndex == [name |-> "logs", accounts |-> FALSE, date_part |-> <<2024, MonthsPerYear + 1, 1>>]

ExitArgs ==
    {[BaseArgs EXCEPT !.indexes = l, !.output_filename = o,
                      !.ignore_exceptions = i, !.return_df = r, !.temp_files = k,
                      !.time_step = MaxTimeStep, !.num_threads = MaxThreads] :
        l \in {<<DayIndex>>, <<BadIndex>>},
        o \in {"login_out.csv", "login_out.json"},
        i \in BOOLEAN, r \in BOOLEAN, k \in BOOLEAN}
    \cup
    {[BaseArgs EXCEPT !.indexes = <<DayIndex, DayIndex>>, !.ignore_exceptions = i,
                      !.time_step = MaxTimeStep, !.num_threads = MaxThreads] :
        i \in BOOLEAN}
    \cup
    {[BaseArgs EXCEPT !.verbose = Detailed, !.return_df = r, !.temp_files = k,
                      !.time_step = MaxTimeStep, !.num_threads = MaxThreads] :
        r \in BOOLEAN, k \in BOOLEAN}
    \cup
    {[BaseArgs EXCEPT !.indexes = <<>>, !.return_df = r] : r \in BOOLEAN}

InitExits == InitWith(<<RowNoon, RowEarly>>)

NextExits ==
    \/ pc = "new" /\ \E a \in ExitArgs : Construct(a)
    \/ DownloadRaisesAtStart
    \/ CreateCacheDir
    \/ CreateCacheDirRaises
    \/ StartMonitor
    \/ \E seed \in 0..MaxSeed : PrepareQueries(seed)
    \/ PrepareQueriesRaises
    \/ ProgressBarRaises
    \/ \E w \in Workers : WorkerStep(w)
    \/ PoolDone
    \/ Aggregate
    \/ WriteOutput
    \/ WriteOutputRaises
    \/ \E move_ok, delete_ok \in BOOLEAN : FinalizeProcess(move_ok, delete_ok)

SpecExits == InitExits /\ [][NextExits]_vars

----------------------------------------------------------------------------
(* Runs over lists of indexes, one after another, with one worker thread *)

Accounts == [name |-> "accounts", accounts |-> TRUE, date_part |-> <<>>]
MonthIndex == [name |-> "metrics", accounts |-> FALSE, date_part |-> <<2024, 1>>]

IndexLists ==
    {<<DayIndex>>, <<Accounts>>, <<MonthIndex>>, <<Accounts, DayIndex>>,
     <<DayIndex, Accounts>>}

IndexArgs ==
    {[BaseArgs EXCEPT !.indexes = l, !.temp_files = k, !.time_step = MaxTimeStep,
                      !.ignore_exceptions = TRUE, !.return_df = TRUE] :
        l \in IndexLists, k \in BOOLEAN}

RowAccount == [index |-> Accounts, t |-> TicksPerDay + TicksPerHour, a |-> 4]

InitIndexes == InitWith(<<RowNoon, RowAccount>>)

NextIndexes ==
    \/ pc = "new" /\ \E a \in IndexArgs : Construct(a)
    \/ CreateCacheDir
    \/ StartMonitor
    \/ \E seed \in 0..MaxSeed : PrepareQueries(seed)
    \/ \E w \in Workers : WorkerStep(w)
    \/ PoolDone
    \/ Aggregate
    \/ Finalize
    \/ NewRun

SpecIndexes == InitIndexes /\ [][NextIndexes]_vars

----------------------------------------------------------------------------
(* The partitioner over day, month and accounts indexes and every filter *)

\* A dated index of the accounts class.
AccountsDay == [name |-> "accounts", accounts |-> TRUE, date_part |-> <<2024, 1, 2>>]

ClauseArgs ==
    {[BaseArgs EXCEPT !.indexes = <<ind>>, !.name_of_type = n, !.event_type = e,
                      !.extra_condition = x, !.time_step = w,
                      !.gte = g[1], !.lte = g[2]] :
        ind \in {DayIndex, MonthIndex, Accounts, AccountsDay},
        n \in {"EventType", "Type"}, e \in {"login", ""},
        x \in {"", "AND x=1"}, w \in {5, MaxTimeStep},
        g \in {<<NoTime, NoTime>>, <<RangeStart, RangeEnd>>}}

InitClauses == InitWith(<<>>)

NextClauses ==
    \/ pc = "new" /\ \E a \in ClauseArgs : Construct(a)
    \/ CreateCacheDir
    \/ StartMonitor
    \/ \E seed \in 0..MaxSeed : PrepareQueries(seed)

SpecClauses == InitClauses /\ [][NextClauses]_vars

----------------------------------------------------------------------------
(* Claims about the partitioner and the configuration *)

RegularQueries == {i \in DOMAIN result_queries : result_queries[i].file.kind = "regular"}
ExtraQueries == {i \in DOMAIN result_queries : result_queries[i].file.kind = "extra"}

\* C3: for a day index, every range [gte, lte) and every window size, each
\* instant of [gte, lte) satisfies the time clause of exactly one generated
\* SubQuery (the regular windows cut to the range, and the extra SubQuery).
C3_PartitionCoverage ==
    (pc = "pool" /\ HasRange(configurator)) =>
        \A t \in Instants :
            (configurator.gte <= t /\ t < configurator.lte) =>
                Cardinality(Covering(t)) = 1

\* A range that begins before the day and ends after it, with a window size
\* that does not divide 24: one instant is covered by the extra SubQuery,
\* another by the last, clamped, regular window.
C3_Witness ==
    /\ pc = "pool"
    /\ configurator.time_step = 5
    /\ configurator.gte < TicksPerDay
    /\ configurator.lte > 2 * TicksPerDay
    /\ \E t \in Instants : \E i \in ExtraQueries :
          /\ configurator.gte <= t /\ t < configurator.lte
          /\ Covering(t) = {i}
    /\ \E t \in Instants : \E i \in RegularQueries :
          /\ t >= 2 * TicksPerDay - TicksPerHour
          /\ Covering(t) = {i}

\* C9 as stated: every regular SubQuery that is emitted has a time clause
\* that some instant satisfies (a window whose intersection with the range
\* is empty produces no SubQuery).
C9_EmittedRegularSatisfiable ==
    pc = "pool" =>
        \A i \in RegularQueries :
            \E t \in 0..(3 * TicksPerDay) :
                Satisfies(t, result_queries[i].query.hour_condition)

\* C10: the effective window size is the argument when it is in 1..12 and 4
\* otherwise, so it is always in 1..12.
C10_WindowSizeClamp ==
    pc # "new" =>
        /\ configurator.time_step =
              (IF 1 <= args.time_step /\ args.time_step <= 12
               THEN args.time_step ELSE 4)
        /\ configurator.time_step \in 1..12

\* A configuration constructed with a window size outside 1..12.
C10_Witness ==
    /\ pc = "constructed"
    /\ args.time_step \in {0, 13}
    /\ configurator.time_step = 4

----------------------------------------------------------------------------
(* Claims about runs of the pipeline *)

Positions == DOMAIN result_queries
Failed == {i \in Positions : outcome[i] = "error"}
Fetched == {i \in Positions : outcome[i] \in {"rows", "empty", "error"}}
InRun == pc \notin {"new", "constructed"}

\* The rows a run hands to its caller: the returned table or the output file.
Delivered == IF configurator.return_df THEN result_df ELSE output.rows

SeqRange(s) == {s[i] : i \in DOMAIN s}

\* The record of the run before, when it ran to completion.
CompletedBefore == {e \in earlier : e.run = run - 1 /\ e.ended = "done"}

\* The position in an earlier run of the query with the same cache file.
SameFile(e, i) ==
    {j \in DOMAIN e.result_queries : e.result_queries[j].file = result_queries[i].file}

\* C1 as stated: after a completed run with cache retention on, the second
\* run of the same configuration makes no backend call.
C1_SecondRunNoBackendCalls ==
    (InRun /\ CompletedBefore # {} /\ configurator.temp_files) => Fetched = {}

\* C1 amended: the second run calls the backend for exactly the SubQueries
\* whose first-run call returned an empty result or raised; a SubQuery whose
\* first run wrote rows or was a cache hit is a cache hit again.
C1_SecondRunFetchesOnlyUncached ==
    (InRun /\ configurator.temp_files) =>
        \A e \in CompletedBefore : \A i \in Positions : \A j \in SameFile(e, i) :
            /\ e.outcome[j] \in {"rows", "hit"} => outcome[i] \in {"pending", "hit"}
            /\ e.outcome[j] \in {"empty", "error"} => outcome[i] # "hit"

\* A second run that has finished with a cache hit and with a new backend
\* call for a SubQuery whose first result was empty.
C1_Witness ==
    /\ pc = "done" /\ configurator.temp_files
    /\ \E e \in CompletedBefore : \E i, k \in Positions :
          /\ outcome[i] = "hit"
          /\ outcome[k] = "empty"
          /\ \E j \in SameFile(e, k) : e.outcome[j] = "empty"

\* C4: with ignore_exceptions = false, once a backend call has raised, the
\* run is at its exit under every interleaving: it never reaches
\* aggregation, and from then on the output file is not touched.
C4_FailFastNoOutput ==
    /\ []((InRun /\ ~configurator.ignore_exceptions /\ Failed # {}) => pc = "exited")
    /\ [][pc = "exited" => output' = output]_vars

\* The exit happens while the other worker is writing its cache file.
C4_Witness ==
    /\ pc = "exited" /\ Failed # {}
    /\ ~configurator.ignore_exceptions
    /\ \E w \in Workers : wpc[w] = "writing"
    /\ ~output.exists

TimeColumnPresent ==
    SortTimefield \in ColumnsOf(configurator.fields)
        \/ "timestamp" \in ColumnsOf(configurator.fields)

InTimeOrder(rows, ascending) ==
    \A i, j \in DOMAIN rows :
        i < j => (IF ascending THEN rows[i].t <= rows[j].t ELSE rows[i].t >= rows[j].t)

RECURSIVE StoredRows(_)
StoredRows(paths) ==
    IF paths = <<>> THEN <<>>
    ELSE (IF Head(paths) \in DOMAIN files THEN files[Head(paths)].rows ELSE <<>>)
         \o StoredRows(Tail(paths))

\* C7: in return-as-table mode, when the tables carry the designated time
\* column or the fallback timestamp column, the returned table holds exactly
\* the rows of the cache tables, in non-decreasing time order when ascending
\* and in non-increasing order when not.
C7_AggregatedTableSorted ==
    (pc = "done" /\ configurator.return_df /\ TimeColumnPresent) =>
        /\ InTimeOrder(result_df, configurator.ascending)
        /\ Len(result_df) = Len(StoredRows(TemporaryFiles))
        /\ SeqRange(result_df) = SeqRange(StoredRows(TemporaryFiles))

\* A descending table of 13 rows read from 13 cache files, more than one
\* chunk, sorted by the fallback column, whose rows were not stored in
\* descending order.
C7_Witness ==
    /\ pc = "done" /\ configurator.return_df /\ ~configurator.ascending
    /\ configurator.fields = "timestamp, a"
    /\ Len(TemporaryFiles) = 13
    /\ Len(result_df) = 13
    /\ ~InTimeOrder(StoredRows(TemporaryFiles), FALSE)

\* The five parameters that are to decide the cache directory.
KeyOf(c) == <<c.fields, c.name_of_type, c.event_type, c.extra_condition, c.time_step>>

\* C6 as stated: two configurations resolve to the same cache directory if
\* and only if they agree on fields, filter field, filter value, extra
\* condition and window size.
C6_SameDirectoryIffSameKey ==
    pc \in {"monitor", "prepare", "pool"} =>
        \A e \in earlier :
            (e.temp_dir = temp_dir) <=> (KeyOf(e.configurator) = KeyOf(configurator))

\* C2 as stated: for SubQueries of two runs, equal cache file paths imply
\* equal query text.
C2_EqualPathEqualQuery ==
    pc = "pool" =>
        \A e \in earlier : \A i \in Positions : \A j \in SameFile(e, i) :
            e.result_queries[j].query = result_queries[i].query

----------------------------------------------------------------------------
(* Claims about the ways a run ends *)

Ended == pc \in {"done", "raised", "exited"}

\* C11 as stated: once the memory monitor has been started, every way the
\* run ends (return, raise, process exit) finds the monitor stopped and
\* joined by the teardown.
C11_TeardownOnEveryExit ==
    Ended => memory_thread # "running"

\* The paths of the SubQueries of the run whose cache file holds a table
\* with rows.
PathsWithData ==
    {result_queries[i].file : i \in
        {j \in Positions : /\ result_queries[j].file \in DOMAIN files
                           /\ files[result_queries[j].file].rows # <<>>}}

\* C12 as stated: the list handed to aggregation holds exactly the paths of
\* the SubQueries whose cache file holds data; the path of a SubQuery whose
\* result was empty or whose call failed is not in it.
C12_HandedListHoldsData ==
    pc \in {"aggregate", "write"} =>
        /\ SeqRange(AllTempFilesFrom(1)) = PathsWithData
        /\ \A i \in Positions :
              outcome[i] \in {"empty", "error"} => results[i] # "path"

\* C13 as stated: within one run the backend is called at most once for a
\* cache file path: no two SubQueries with the same path are both fetched.
C13_AtMostOneCallPerPath ==
    \A i, j \in Positions :
        (i # j /\ result_queries[i].file = result_queries[j].file) =>
            ~(i \in Fetched /\ j \in Fetched)

\* C14 as stated: no Configuration is constructed from arguments with
\* exactly one of gte and lte set.
C14_PartialRangeRejected ==
    pc # "new" => ((args.gte = NoTime) <=> (args.lte = NoTime))

\* C15 as stated: a run in write-file mode whose output file is not .csv
\* makes no backend call and creates no output file.
C15_UnsupportedFormatRejectedEarly ==
    (pc # "new" /\ UnsupportedExtension(configurator)) =>
        (Fetched = {} /\ ~output.exists)

\* C16 as stated: a failure of creating the cache directory, of deleting it
\* or of moving the log file never makes the run raise.
C16_AllFaultsSwallowed ==
    (Ended /\ faults # {}) =>
        (pc = "done" \/ (pc = "raised" /\ RunRaises(configurator)))

\* C16, amended: a failure of deleting the cache directory or of moving the
\* log file is swallowed, and the run ends as it would have: it returns with
\* the monitor joined, or raises the error it was raising.  A failure of creating the cache directory is raised to the
\* caller before the monitor is started and before any query is prepared.
C16_DeleteAndMoveFaultsSwallowed ==
    /\ (faults \cap {"move", "delete"} # {}) =>
          /\ pc = "done" \/ (pc = "raised" /\ RunRaises(configurator))
          /\ memory_thread = "joined"
          /\ pc = "done" =>
                (IF configurator.return_df THEN ~output.exists ELSE output.exists)
    /\ ("create" \in faults) =>
          /\ pc = "raised"
          /\ memory_thread = "unstarted"
          /\ temp_dir = NoDir /\ dirs = {}
          /\ result_queries = <<>>

\* A run that wrote its output file and returned although the deletion of
\* its new cache directory failed: the directory is still there.
C16_Witness ==
    /\ pc = "done" /\ faults = {"delete"}
    /\ temp_dir \in dirs /\ output.exists

----------------------------------------------------------------------------
(* Claims about index lists and INFO.md *)

\* The earlier runs of the session that resolved to this run's cache
\* directory and called the backend.
RunsIntoDir ==
    {e \in earlier :
        /\ e.temp_dir = temp_dir
        /\ \E i \in DOMAIN e.outcome : e.outcome[i] \in {"rows", "empty", "error"}}

QueriedIntoDir ==
    IndexSet(configurator.indexes)
        \cup UNION {IndexSet(e.configurator.indexes) : e \in RunsIntoDir}

\* C17 as stated: when a run has returned and its cache directory is still
\* there, the directory's INFO.md lists the index names of this run and of
\* all the earlier runs that resolved to the directory, the names without a
\* parseable date before the dated ones.
C17_InfoListsEveryRun ==
    (pc = "done" /\ temp_dir \in dirs) =>
        /\ temp_dir \in DOMAIN info
        /\ IndexSet(info[temp_dir]) = QueriedIntoDir
        /\ \A i, j \in DOMAIN info[temp_dir] :
              (info[temp_dir][i].date_part # <<>> /\ info[temp_dir][j].date_part = <<>>)
                  => j < i

\* C19 as stated: no instant satisfies the time clauses of two different
\* regular SubQueries of the same index.
C19_RegularClausesDisjoint ==
    pc = "pool" =>
        \A i, j \in RegularQueries :
            (i # j /\ result_queries[i].query.index = result_queries[j].query.index) =>
                ~\E t \in 0..(3 * TicksPerDay) :
                    /\ Satisfies(t, result_queries[i].query.hour_condition)
                    /\ Satisfies(t, result_queries[j].query.hour_condition)

\* The SubQueries of a list of one index.
QueriesAlone(ind) ==
    SeqRange(PrepareQueriesResult([configurator EXCEPT !.indexes = <<ind>>], temp_dir, 0))

\* C20 as stated: an index without a date token gets exactly one _full
\* SubQuery, and every index of the list gets the SubQueries it gets in a
\* list of its own.
C20_DatelessIndexAffectsOnlyItself ==
    pc = "pool" =>
        \A k \in DOMAIN configurator.indexes :
            LET ind == configurator.indexes[k]
                own == {i \in Positions : result_queries[i].query.index = ind}
            IN  /\ {result_queries[i] : i \in own} = QueriesAlone(ind)
                /\ ind.date_part = <<>> =>
                      /\ Cardinality(own) = 1
                      /\ \A i \in own : result_queries[i].file.kind = "full"

----------------------------------------------------------------------------
(* Claims about the SubQueries of one index *)

\* The index names that carry no parseable date token: no "-", or a token
\* after the first "-" that is not a YYYY.MM or YYYY.MM.DD date.
Unparseable(ind) == ind.date_part = <<>> \/ ~ValidDate(ind.date_part)

\* The run raised out of prepare_queries.
PrepareRaised == pc = "raised" /\ temp_dir # NoDir /\ result_queries = <<>>

\* C21 as stated: for a list of one index without a parseable date token,
\* partitioning raises no error and emits exactly one SubQuery, a _full one.
C21_UnparseableNameGetsFull ==
    (pc # "new" /\ Len(configurator.indexes) = 1
        /\ Unparseable(configurator.indexes[1])) =>
        /\ ~PrepareRaised
        /\ pc \in {"pool", "aggregate", "write", "finalize", "done", "exited"} =>
              /\ Len(result_queries) = 1
              /\ result_queries[1].file.kind = "full"

\* The regular windows of the run's SubQueries as pairs of ticks.
RegularWindows ==
    {<<result_queries[i].query.hour_condition.start,
       result_queries[i].query.hour_condition.end>> : i \in RegularQueries}

\* The first tick of the day of the day index.
DayStart == DateTick(DayIndex.date_part[2], DayIndex.date_part[3])

\* C22: with no global range, for every window size w in 1..12 the regular
\* windows of one day are closed-open, ceil(24/w) in number, start at 00:00
\* and follow one another at distance w, each ends w hours after its start
\* or, if that would pass 24:00, at the next midnight, none is empty, and
\* every instant of the day lies in exactly one of them and no instant
\* outside the day lies in any.
C22_DayWindowsTileTheDay ==
    (pc = "pool" /\ ~HasRange(configurator)) =>
        LET w == configurator.time_step
            n == (HoursPerDay + w - 1) \div w
        IN  /\ w \in 1..12
            /\ Cardinality(RegularQueries) = n
            /\ \A i \in RegularQueries :
                  ~result_queries[i].query.hour_condition.closed
            /\ RegularWindows =
                  {<<DayStart + k * w * TicksPerHour,
                     Min(DayStart + (k + 1) * w * TicksPerHour, DayStart + TicksPerDay)>> :
                      k \in 0..(n - 1)}
            /\ \A win \in RegularWindows : win[1] < win[2]
            /\ \A t \in 0..(3 * TicksPerDay) :
                  Cardinality({i \in RegularQueries :
                      Satisfies(t, result_queries[i].query.hour_condition)})
                    = (IF DayStart <= t /\ t < DayStart + TicksPerDay THEN 1 ELSE 0)

\* Windows of 5 hours: the fifth begins at 20:00 and is cut at midnight.
C22_Witness ==
    /\ pc = "pool" /\ ~HasRange(configurator)
    /\ configurator.time_step = 5
    /\ <<DayStart + 20 * TicksPerHour, DayStart + TicksPerDay>> \in RegularWindows

\* The positions of the extra SubQueries of an index.
ExtrasOf(ind) == {i \in ExtraQueries : result_queries[i].query.index = ind}

\* The SubQueries of the run in the order prepare_queries generated them.
Generated == IndexLoop(configurator, temp_dir, <<>>, 1).queries

\* C23 as stated: a dated index gets one extra SubQuery when a global time
\* range is set and none when no range is set.
C23_ExtraOnlyWithRange ==
    pc = "pool" =>
        \A k \in DOMAIN configurator.indexes :
            LET ind == configurator.indexes[k]
            IN  ind.date_part # <<>> =>
                    Cardinality(ExtrasOf(ind)) = (IF HasRange(configurator) THEN 1 ELSE 0)

\* C23, amended: a dated index gets exactly one extra SubQuery whether or
\* not a global time range is set; its clause selects the times outside the
\* index's day or month and, when a range is set, inside the range.  For a
\* month index it is generated once, after the windows of the last day.
C23_OneExtraPerDatedIndex ==
    pc = "pool" =>
        \A k \in DOMAIN configurator.indexes :
            LET ind == configurator.indexes[k]
                p == ParseDateFromIndex(ind.date_part)
            IN  ind.date_part # <<>> =>
                  /\ Cardinality(ExtrasOf(ind)) = 1
                  /\ \A i \in ExtrasOf(ind) :
                        LET h == result_queries[i].query.hour_condition
                        IN  /\ h.start = p.start_date /\ h.end = p.end_date
                            /\ h.has_range = HasRange(configurator)
                            /\ h.has_range =>
                                  (h.gte = configurator.gte /\ h.lte = configurator.lte)
                  /\ Generated[Len(Generated)].file.kind = "extra"

\* A month index without a range: the windows of every day of the month and
\* one extra SubQuery.
C23_Witness ==
    /\ pc = "pool" /\ ~HasRange(configurator)
    /\ configurator.indexes = <<MonthIndex>>
    /\ configurator.time_step = MaxTimeStep
    /\ Cardinality(RegularQueries) = DaysInMonth * 2
    /\ Cardinality(ExtrasOf(MonthIndex)) = 1

\* C24 as stated: no SubQuery of an index whose name contains "accounts"
\* has a type-filter clause in its query text.
C24_AccountsQueriesHaveNoTypeClause ==
    pc = "pool" =>
        \A i \in Positions :
            result_queries[i].query.index.accounts =>
                ~result_queries[i].query.type_clause

----------------------------------------------------------------------------
(* Claims about the worker pool *)

\* The states of a worker whose query has not been counted yet.
BeforeCount ==
    {"fetch", "write", "writing", "lock_success", "lock_error",
     "store_success", "store_error"}

\* The positions whose outcome has been recorded in a counter.
Recorded ==
    {i \in Positions :
        /\ outcome[i] # "pending"
        /\ ~\E w \in Workers : wtask[w] = i /\ wpc[w] \in BeforeCount}

AfterThePool == pc \in {"aggregate", "write", "finalize", "done"}

\* A worker takes a query whose cache file exists: it does not go on to
\* call the backend, and the step leaves the disk as it is.
HitIsNoFetch ==
    \A w \in Workers :
        (pc = "pool" /\ wpc[w] = "idle" /\ wpc'[w] # "idle") =>
            LET i == wtask'[w]
            IN  result_queries[i].file \in DOMAIN files =>
                    /\ wpc'[w] = "lock_success"
                    /\ outcome'[i] = "hit"
                    /\ files' = files

\* From then on to the end of the run the query stays a cache hit and its
\* cache file is what it was.
HitLeavesFile ==
    \A i \in DOMAIN outcome :
        (outcome[i] = "hit" /\ run' = run) =>
            /\ outcome'[i] = "hit"
            /\ result_queries[i].file \in DOMAIN files'
            /\ files'[result_queries[i].file] = files[result_queries[i].file]

\* The step that counts a cache hit adds one to success_count and nothing
\* to error_count.
HitCountsOnce ==
    \A w \in Workers :
        (wpc[w] = "store_success" /\ wpc'[w] = "return" /\ outcome[wtask[w]] = "hit") =>
            (success_count' = success_count + 1 /\ error_count' = error_count)

Empty == {i \in Positions : outcome[i] = "empty"}

\* The step that counts an empty result adds one to success_count and
\* nothing to error_count.
EmptyCountsAsSuccess ==
    \A w \in Workers :
        (wpc[w] \in {"store_success", "store_error"} /\ wpc'[w] = "return"
            /\ outcome[wtask[w]] = "empty") =>
            (success_count' = success_count + 1 /\ error_count' = error_count)

\* C26: a SubQuery whose backend call returns an empty result is counted as
\* a success and not as an error, with ignore_exceptions false and true: it
\* does not end the process, the error counter counts the failed calls only,
\* no cache file is created for it, and its path is not in the list passed
\* on to aggregation.
C26_EmptyResultIsSuccess ==
    /\ [][EmptyCountsAsSuccess]_vars
    /\ [](InRun =>
            /\ (pc = "exited" => Failed # {})
            /\ error_count = Cardinality(Recorded \cap Failed)
            /\ \A i \in Empty :
                  /\ result_queries[i].file \notin DOMAIN files
                  /\ results[i] \in {"pending", "none"}
                  /\ AfterThePool =>
                        /\ results[i] = "none"
                        /\ result_queries[i].file \notin SeqRange(TemporaryFiles))

\* A finished fail-fast run in which one of the three SubQueries returned an
\* empty result: three successes, two paths passed on.
C26_Witness ==
    /\ pc = "done" /\ ~configurator.ignore_exceptions
    /\ Cardinality(Empty) = 1
    /\ success_count = 3 /\ error_count = 0
    /\ Len(TemporaryFiles) = 2

\* C27 as stated: under every interleaving of the workers no counter
\* update is lost: the progress bar never goes back during a run,
\* success_count + error_count is the number of SubQueries whose outcome has
\* been recorded, and once the pool has drained in a run that was not
\* aborted, success_count + error_count and the ticks of the progress bar
\* both equal the number of SubQueries.
C27_NoCounterUpdateLost ==
    /\ [][run' = run => pbar' >= pbar]_vars
    /\ [](InRun =>
            /\ success_count + error_count = Cardinality(Recorded)
            /\ AfterThePool =>
                  /\ success_count + error_count = Len(result_queries)
                  /\ pbar = Len(result_queries))

----------------------------------------------------------------------------
(* Claims about finalization *)

\* The run ended through the try statement: it returned, or the except
\* clause re-raised.
EndedThroughTry ==
    \/ pc = "done"
    \/ pc = "raised" /\ result_queries # <<>>

\* C28: on every path that reaches finalization, the normal return and an
\* error raised inside the try statement, all workers have finished, the
\* summary is made after the monitor was stopped and joined and with the
\* final counters, and the run returns or re-raises only after
\* finalize_process has run.
C28_FinalizationOrder ==
    /\ pc = "finalize" => \A w \in Workers : wpc[w] = "idle"
    /\ summary.sent =>
          /\ summary.workers_running = {}
          /\ summary.memory_thread = "joined"
          /\ summary.success_count = success_count
          /\ summary.error_count = error_count
          /\ success_count + error_count = Cardinality(Recorded)
          /\ EndedThroughTry
    /\ EndedThroughTry => (summary.sent /\ memory_thread = "joined")

\* A run that fetched its three SubQueries and then raised the error of the
\* unsupported extension: the summary was made, with the three outcomes.
C28_Witness ==
    /\ pc = "raised" /\ UnsupportedExtension(configurator)
    /\ summary.sent /\ summary.memory_thread = "joined"
    /\ summary.success_count + summary.error_count = 3
    /\ Len(result_queries) = 3

----------------------------------------------------------------------------
(* Claims about the cache files *)

\* C29 as stated: a cache file that exists holds the complete result of its
\* SubQuery, unless a worker of the running pool is writing it at this
\* moment; and no SubQuery is a cache hit on a file that is not complete.
C29_CacheFilesComplete ==
    /\ \A f \in DOMAIN files :
          ~files[f].complete =>
              /\ pc = "pool"
              /\ \E w \in Workers :
                    wpc[w] = "writing" /\ result_queries[wtask[w]].file = f
    /\ \A i \in DOMAIN outcome :
          outcome[i] = "hit" => files[result_queries[i].file].complete

----------------------------------------------------------------------------
(* Claims about runs without SubQueries *)

\* C30 as stated: a run over an empty list of indexes, which yields no
\* SubQuery, does not raise, and when it has returned the table it returns
\* is empty or the output file it wrote holds the header and no rows.
C30_EmptyRunCompletes ==
    (pc # "new" /\ configurator.indexes = <<>>) =>
        /\ pc # "raised"
        /\ pc = "done" =>
              /\ Delivered = <<>>
              /\ configurator.return_df \/ output.exists

====
